---- MODULE Spec2Model ----
(***************************************************************************)
(* Message lifecycle and scheduled delivery of VirtualTherapist:           *)
(* app/services/message_service.py (MessageService), the APScheduler       *)
(* instance of app/core/scheduler.py, app/utils/phone.py.                  *)
(*                                                                         *)
(* One tick of `now` is one hour.  Request handlers run on one asyncio     *)
(* event loop and contain no suspension point (database and provider calls *)
(* are blocking), so at most one handler is in flight (`req`); a scheduled *)
(* job runs deliver_message in an executor thread (`fr["job"]`) and        *)
(* interleaves with the handler between any two database round trips.      *)
(* While no job thread runs nothing can come between a handler's query and *)
(* its commit, and the two are one step.                                   *)
(***************************************************************************)
EXTENDS Integers, Sequences, FiniteSets, TLC

VARIABLES now, db, patient_phone, jobs, req, fr, sends

vars == <<now, db, patient_phone, jobs, req, fr, sends>>

-----------------------------------------------------------------------------
(* Bounds of the model *)

\* the last hour the clock reaches
MaxTime == 1

(* Program constants *)

\* misfire_grace_time = 3600 seconds = one tick
MisfireGrace == 1

\* timezone="Asia/Jerusalem" of the scheduler: UTC+2, in ticks
SchedulerUtcOffset == 2

-----------------------------------------------------------------------------
(* Values *)

Msgs == {1}

Therapists == {"th1"}

\* the therapist the drafts are generated for
Owner == "th1"

\* Optional values: None is <<>>, a present value x is <<x>>
NULL == <<>>

Some(x) == <<x>>

Val(o) == o[1]

MessageStatus ==
    {"draft", "pending_approval", "approved", "scheduled", "sent", "delivered",
     "read", "replied", "rejected", "cancelled", "failed"}

MessageTypes == {"task_reminder", "session_reminder"}

\* tzinfo of a datetime argument: none (naive), UTC, or the offset +01:00
TzInfos == {"naive", "utc", "plus1"}

\* wall-clock readings of a datetime argument
Walls == 0..(MaxTime + 1)

SendAtArgs == {NULL} \cup {Some([wall |-> w, tz |-> z]) : w \in Walls, z \in TzInfos}

\* the editor of a scheduled message sends a naive or a UTC reading
EditSendAtArgs ==
    {NULL} \cup {Some([wall |-> w, tz |-> z]) : w \in Walls, z \in {"naive", "utc"}}

\* texts: the generated draft, and what the therapist types in the draft
\* editor, on confirming, and in the editor of a scheduled message
DraftText == "gen"

EditText == "edited"

FinalText == "final"

RescheduleText == "changed"

\* the audit timestamps (approved_at, rejected_at, sent_at) are written and
\* never read: the model keeps that one is set, not its value
Stamp(t) == Some("set")

ReasonArgs == {Some("not now")}

\* strings are sequences of one-character strings
LocalPhone == <<"0", "5", "0", "-", "1", "2", "3", "-", "4", "5", "6", "7">>

IntlPhone == <<"0", "0", "1", " ", "4", "1", "5", " ", "5", "5", "5", "0", "1", "0", "0">>

BadPhone == <<"a", "b", "c">>

EmptyStr == <<>>

\* recipient_phone of send_or_schedule_message and of edit_scheduled_message
ConfirmPhoneArgs == {NULL, Some(LocalPhone), Some(BadPhone)}

EditPhoneArgs == {NULL, Some(EmptyStr), Some(LocalPhone), Some(BadPhone)}

ProfilePhone == <<"+", "1", "4", "1", "5", "5", "5", "5", "0", "1", "0", "0">>

WindowReason == "outside 24h window - template required"

-----------------------------------------------------------------------------
(* app/utils/phone.py *)

Digits == {"0", "1", "2", "3", "4", "5", "6", "7", "8", "9"}

\* the class of the re.sub: whitespace, dash, parentheses, dot
FormatChars == {" ", "-", "(", ")", "."}

StartsWith(s, p) == Len(s) >= Len(p) /\ SubSeq(s, 1, Len(p)) = p

RECURSIVE LStrip(_)
LStrip(s) == IF s # <<>> /\ Head(s) = " " THEN LStrip(Tail(s)) ELSE s

RECURSIVE RStrip(_)
RStrip(s) ==
    IF s # <<>> /\ s[Len(s)] = " " THEN RStrip(SubSeq(s, 1, Len(s) - 1)) ELSE s

Strip(s) == RStrip(LStrip(s))

IsFormatChar(c) == c \in FormatChars

Cleaned(s) == SelectSeq(Strip(s), LAMBDA c : ~IsFormatChar(c))

IntlPrefix(s) == IF StartsWith(s, <<"0", "0">>) THEN <<"+">> \o SubSeq(s, 3, Len(s)) ELSE s

LocalPrefix(s) ==
    IF StartsWith(s, <<"0">>) /\ ~StartsWith(s, <<"0", "+">>)
    THEN <<"+", "9", "7", "2">> \o Tail(s)
    ELSE s

\* characters other than 0-9 for which str.isdigit() is true, named by their
\* code points: SUPERSCRIPT TWO and ARABIC-INDIC DIGIT THREE
OtherDigits == {"U+00B2", "U+0663"}

\* str.isdigit(): non-empty and every character a Unicode digit
IsDigitStr(s) == s # <<>> /\ \A i \in 1..Len(s) : s[i] \in Digits \cup OtherDigits

\* normalize_phone: [ok |-> TRUE, val |-> E.164] or [ok |-> FALSE] (ValueError)
normalize_phone(phone) ==
    IF phone = <<>> \/ Strip(phone) = <<>>
    THEN [ok |-> FALSE, val |-> <<>>]
    ELSE LET cleaned == LocalPrefix(IntlPrefix(Cleaned(phone)))
         IN  IF ~StartsWith(cleaned, <<"+">>)
             THEN [ok |-> FALSE, val |-> <<>>]
             ELSE IF ~IsDigitStr(Tail(cleaned))
             THEN [ok |-> FALSE, val |-> <<>>]
             ELSE IF ~(7 <= Len(Tail(cleaned)) /\ Len(Tail(cleaned)) <= 15)
             THEN [ok |-> FALSE, val |-> <<>>]
             ELSE [ok |-> TRUE, val |-> cleaned]

-----------------------------------------------------------------------------
(* Timestamps *)

\* offset from UTC of an aware datetime
UtcOffset(tz) == IF tz = "plus1" THEN 1 ELSE 0

\* send_at.replace(tzinfo=timezone.utc) when send_at arrives naive
AttachUtc(d) == IF d.tz = "naive" THEN [d EXCEPT !.tz = "utc"] ELSE d

\* the instant an aware datetime denotes
Instant(d) == d.wall - UtcOffset(d.tz)

\* a DateTime column keeps the wall-clock fields and drops the tzinfo
StoreDateTime(d) == d.wall

\* DateTrigger(run_date): a naive run_date is localized in the scheduler's timezone
RunDate(d) == IF d.tz = "naive" THEN d.wall - SchedulerUtcOffset ELSE Instant(d)

-----------------------------------------------------------------------------
(* app/models/message.py: a row of the messages table *)

Message(th, type, text) ==
    [therapist_id |-> th, message_type |-> type, content |-> text,
     status |-> "draft", approved_at |-> NULL, rejected_at |-> NULL,
     rejection_reason |-> NULL, sent_at |-> NULL, scheduled_send_at |-> NULL,
     recipient_phone |-> NULL]

\* what a query that finds no row returns
NoMessage == [Message("", "", "") EXCEPT !.status = "none"]

\* Session.commit(): the UPDATE carries the attributes changed since the load
Flush(row, loaded, new) ==
    [f \in DOMAIN row |-> IF new[f] # loaded[f] THEN new[f] ELSE row[f]]

\* query(Message).filter(id == message_id, therapist_id == therapist_id).first()
Found(m, th) == m \in DOMAIN db /\ db[m].therapist_id = th

-----------------------------------------------------------------------------
(* The handler in flight on the event loop, and the frames of deliver_message *)

\* loaded: the row the query read; msg: the object the handler holds;
\* todo: the steps left; result: "ok" or the error raised; due: the
\* records a sweep has still to dispatch
Call(op, m, th) ==
    [op |-> op, m |-> m, th |-> th, todo |-> <<>>, result |-> "ok",
     loaded |-> NoMessage, msg |-> NoMessage, act |-> "", send_at |-> NULL,
     delivers |-> 0, audited |-> FALSE, due |-> <<>>]

Idle == Call("idle", 0, "")

Pc(r) == IF r.todo = <<>> THEN "idle" ELSE Head(r.todo)

\* the handler raises before anything is written
Fail(op, m, th, loaded, err) ==
    [Call(op, m, th) EXCEPT !.todo = <<"ret">>, !.result = err,
                            !.loaded = loaded, !.msg = loaded]

Ctx == {"loop", "job"}

IdleFrame ==
    [pc |-> "idle", m |-> 0, loaded |-> NoMessage, to_phone |-> <<>>, result |-> ""]

ProviderResults == {"sent", "failed", "failed_63016"}

\* provider calls made for a message so far: "none", "one" or "many"
SendCounts == {"none", "one", "many"}

OneMore(n) == IF n = "none" THEN "one" ELSE "many"

JobThreadRuns == fr["job"].pc # "idle"

-----------------------------------------------------------------------------
Init ==
    /\ now = 0
    /\ db = <<>>
    /\ patient_phone \in {NULL, Some(ProfilePhone)}
    /\ jobs = [m \in Msgs |-> NULL]
    /\ req = Idle
    /\ fr = [c \in Ctx |-> IdleFrame]
    /\ sends = [m \in Msgs |-> "none"]

\* a handler starts with `call`, the outcome of its query, guard and
\* assignments; its commit follows at once unless a job thread runs
Begin(call) ==
    /\ req = Idle
    /\ IF Pc(call) = "commit" /\ ~JobThreadRuns
       THEN /\ db' = [db EXCEPT ![call.m] = Flush(db[call.m], call.loaded, call.msg)]
            /\ req' = [call EXCEPT !.todo = Tail(@), !.msg = db'[call.m]]
       ELSE /\ db' = db
            /\ req' = call

-----------------------------------------------------------------------------
(* generate_draft_message / create_draft_message *)

DraftContent(type) == IF type = "session_reminder" THEN "" ELSE DraftText

GenerateDraft(m, th, type) ==
    /\ req = Idle
    /\ m \notin DOMAIN db
    /\ db' = db @@ (m :> Message(th, type, DraftContent(type)))
    /\ req' = [Call("generate_draft", m, th) EXCEPT
                 !.todo = <<"audit", "ret">>, !.act = "generate_draft",
                 !.loaded = db'[m], !.msg = db'[m]]
    /\ UNCHANGED <<now, patient_phone, jobs, fr, sends>>

-----------------------------------------------------------------------------
(* approve_message *)

CanApprove_approved(status) == status \in {"draft", "pending_approval", "approved"}

CanApprove(status) == status \in {"draft", "pending_approval"}

approve_message(m, th) ==
    IF ~Found(m, th) THEN Fail("approve", m, th, NoMessage, "not_found")
    ELSE IF ~CanApprove(db[m].status)
    THEN Fail("approve", m, th, db[m], "invalid_transition")
    ELSE [Call("approve", m, th) EXCEPT
            !.loaded = db[m],
            !.msg = [db[m] EXCEPT !.status = "approved", !.approved_at = Stamp(now)],
            !.todo = <<"commit", "audit", "ret">>, !.act = "approve"]

ApproveMessage(m, th) ==
    /\ Begin(approve_message(m, th))
    /\ UNCHANGED <<now, patient_phone, jobs, fr, sends>>

(* reject_message *)

\* reject_message tests only that the row exists
CanReject(status) == TRUE

reject_message(m, th, reason) ==
    IF ~Found(m, th) THEN Fail("reject", m, th, NoMessage, "not_found")
    ELSE IF ~CanReject(db[m].status)
    THEN Fail("reject", m, th, db[m], "invalid_transition")
    ELSE [Call("reject", m, th) EXCEPT
            !.loaded = db[m],
            !.msg = [db[m] EXCEPT !.status = "rejected", !.rejected_at = Stamp(now),
                                  !.rejection_reason = reason],
            !.todo = <<"commit", "audit", "ret">>, !.act = "reject"]

RejectMessage(m, th, reason) ==
    /\ Begin(reject_message(m, th, reason))
    /\ UNCHANGED <<now, patient_phone, jobs, fr, sends>>

(* edit_message *)

CanEdit(status) == status \in {"draft", "pending_approval"}

edit_message(m, th, new_content) ==
    IF ~Found(m, th) THEN Fail("edit", m, th, NoMessage, "not_found")
    ELSE IF ~CanEdit(db[m].status)
    THEN Fail("edit", m, th, db[m], "invalid_transition")
    ELSE [Call("edit", m, th) EXCEPT
            !.loaded = db[m],
            !.msg = [db[m] EXCEPT !.content = new_content],
            !.todo = <<"commit", "audit", "ret">>, !.act = "edit"]

EditMessage(m, th, new_content) ==
    /\ Begin(edit_message(m, th, new_content))
    /\ UNCHANGED <<now, patient_phone, jobs, fr, sends>>

(* send_message: the legacy send of an approved message; no provider call *)

send_message(m) ==
    IF m \notin DOMAIN db THEN Fail("send", m, "", NoMessage, "not_found")
    ELSE IF db[m].status # "approved"
    THEN Fail("send", m, "", db[m], "invalid_transition")
    ELSE [Call("send", m, db[m].therapist_id) EXCEPT
            !.loaded = db[m],
            !.msg = [db[m] EXCEPT !.status = "sent", !.sent_at = Stamp(now)],
            !.todo = <<"commit", "audit", "ret">>, !.act = "send"]

SendMessage(m) ==
    /\ Begin(send_message(m))
    /\ UNCHANGED <<now, patient_phone, jobs, fr, sends>>

-----------------------------------------------------------------------------
(* send_or_schedule_message *)

\* "if recipient_phone:" - neither None nor the empty string
Truthy(o) == o # NULL /\ Val(o) # EmptyStr

\* lines 450-451: a naive send_at gets tzinfo=UTC
NormalizeSendAt_keep(send_at) == send_at

NormalizeSendAt(send_at) ==
    IF send_at = NULL THEN NULL ELSE Some(AttachUtc(Val(send_at)))

\* comparing a naive datetime with the aware `now` raises TypeError
CompareRaises(sa) == sa # NULL /\ Val(sa).tz = "naive"

\* line 460: send_at is None or send_at <= now
Immediate(sa, t) == sa = NULL \/ Instant(Val(sa)) <= t

CanConfirm_scheduled(status) == status \in {"draft", "scheduled"}

CanConfirm(status) == status = "draft"

Confirmed_any_type(row, final_content, phone, t) ==
    [row EXCEPT
       !.content = final_content,
       !.recipient_phone = IF Truthy(phone) THEN Some(normalize_phone(Val(phone)).val) ELSE @,
       !.approved_at = Stamp(t)]

Confirmed_unstamped(row, final_content, phone, t) ==
    [row EXCEPT
       !.content = IF row.message_type # "session_reminder" THEN final_content ELSE @,
       !.recipient_phone = IF Truthy(phone) THEN Some(normalize_phone(Val(phone)).val) ELSE @]

\* lines 440-447: final content, recipient and approval time
Confirmed(row, final_content, phone, t) ==
    [row EXCEPT
       !.content = IF row.message_type # "session_reminder" THEN final_content ELSE @,
       !.recipient_phone = IF Truthy(phone) THEN Some(normalize_phone(Val(phone)).val) ELSE @,
       !.approved_at = Stamp(t)]

Scheduled_untimed(row, sa) == [row EXCEPT !.status = "scheduled"]

\* lines 466-467
Scheduled(row, sa) ==
    [row EXCEPT !.status = "scheduled", !.scheduled_send_at = Some(StoreDateTime(Val(sa)))]

send_or_schedule_message(m, th, final_content, phone, send_at) ==
    IF ~Found(m, th) THEN Fail("send_or_schedule", m, th, NoMessage, "not_found")
    ELSE IF ~CanConfirm(db[m].status)
    THEN Fail("send_or_schedule", m, th, db[m], "invalid_transition")
    ELSE IF Truthy(phone) /\ ~normalize_phone(Val(phone)).ok
    THEN Fail("send_or_schedule", m, th, db[m], "invalid_phone")
    ELSE LET sa == NormalizeSendAt(send_at)
             row == Confirmed(db[m], final_content, phone, now)
         IN  IF CompareRaises(sa)
             THEN Fail("send_or_schedule", m, th, db[m], "type_error")
             ELSE IF Immediate(sa, now)
             THEN [Call("send_or_schedule", m, th) EXCEPT
                     !.loaded = db[m], !.msg = row, !.send_at = sa,
                     !.todo = <<"commit", "deliver", "ret">>]
             ELSE [Call("send_or_schedule", m, th) EXCEPT
                     !.loaded = db[m], !.msg = Scheduled(row, sa),
                     !.send_at = sa, !.act = "schedule",
                     !.todo = <<"commit", "add_job", "audit", "ret">>]

SendOrSchedule(m, th, final_content, phone, send_at) ==
    /\ Begin(send_or_schedule_message(m, th, final_content, phone, send_at))
    /\ UNCHANGED <<now, patient_phone, jobs, fr, sends>>

(* cancel_message *)

CanCancel_draft(status) == status \in {"scheduled", "draft"}

CanCancel(status) == status = "scheduled"

cancel_message(m, th) ==
    IF ~Found(m, th) THEN Fail("cancel", m, th, NoMessage, "not_found")
    ELSE IF ~CanCancel(db[m].status)
    THEN Fail("cancel", m, th, db[m], "invalid_transition")
    ELSE [Call("cancel", m, th) EXCEPT
            !.loaded = db[m], !.msg = [db[m] EXCEPT !.status = "cancelled"],
            !.todo = <<"commit", "remove_job", "audit", "ret">>, !.act = "cancel"]

CancelMessage(m, th) ==
    /\ Begin(cancel_message(m, th))
    /\ UNCHANGED <<now, patient_phone, jobs, fr, sends>>

(* edit_scheduled_message *)

CanEditScheduled(status) == status = "scheduled"

Edited_phone_reset(row, content, phone, send_at) ==
    [row EXCEPT
       !.content = IF content # NULL /\ row.message_type # "session_reminder"
                   THEN Val(content) ELSE @,
       !.recipient_phone = IF Truthy(phone) THEN Some(normalize_phone(Val(phone)).val)
                           ELSE phone,
       !.scheduled_send_at = IF send_at # NULL THEN Some(StoreDateTime(Val(send_at))) ELSE @]

\* lines 543-553: only the provided fields are assigned
Edited(row, content, phone, send_at) ==
    [row EXCEPT
       !.content = IF content # NULL /\ row.message_type # "session_reminder"
                   THEN Val(content) ELSE @,
       !.recipient_phone = IF phone = NULL THEN @
                           ELSE IF Truthy(phone) THEN Some(normalize_phone(Val(phone)).val)
                           ELSE phone,
       !.scheduled_send_at = IF send_at # NULL THEN Some(StoreDateTime(Val(send_at))) ELSE @]

edit_scheduled_message(m, th, content, phone, send_at) ==
    IF ~Found(m, th) THEN Fail("edit_scheduled", m, th, NoMessage, "not_found")
    ELSE IF ~CanEditScheduled(db[m].status)
    THEN Fail("edit_scheduled", m, th, db[m], "invalid_transition")
    ELSE IF Truthy(phone) /\ ~normalize_phone(Val(phone)).ok
    THEN Fail("edit_scheduled", m, th, db[m], "invalid_phone")
    ELSE IF send_at # NULL /\ jobs[m] = NULL
    THEN Fail("edit_scheduled", m, th, db[m], "job_lookup_error")
    ELSE [Call("edit_scheduled", m, th) EXCEPT
            !.loaded = db[m], !.msg = Edited(db[m], content, phone, send_at),
            !.todo = <<"commit", "ret">>]

\* scheduler.reschedule_job(id, trigger="date", run_date=send_at), line 556
reschedule_job(m, send_at) == [jobs EXCEPT ![m] = Some(RunDate(Val(send_at)))]

EditScheduled(m, th, content, phone, send_at) ==
    /\ Begin(edit_scheduled_message(m, th, content, phone, send_at))
    /\ jobs' = IF edit_scheduled_message(m, th, content, phone, send_at).result = "ok"
                  /\ send_at # NULL
               THEN reschedule_job(m, send_at) ELSE jobs
    /\ UNCHANGED <<now, patient_phone, fr, sends>>

-----------------------------------------------------------------------------
(* The steps of a handler after its query *)

\* self.db.commit() and the reload of the object, with a job thread running
Commit ==
    /\ Pc(req) = "commit"
    /\ db' = [db EXCEPT ![req.m] = Flush(db[req.m], req.loaded, req.msg)]
    /\ req' = [req EXCEPT !.todo = Tail(@), !.msg = db'[req.m]]
    /\ UNCHANGED <<now, patient_phone, jobs, fr, sends>>

\* scheduler.add_job(_deliver_message_job, "date", run_date=send_at, replace_existing=True)
AddJob ==
    /\ Pc(req) = "add_job"
    /\ jobs' = [jobs EXCEPT ![req.m] = Some(RunDate(Val(req.send_at)))]
    /\ req' = [req EXCEPT !.todo = Tail(@)]
    /\ UNCHANGED <<now, db, patient_phone, fr, sends>>

\* scheduler.remove_job(id); a missing job is ignored
RemoveJob ==
    /\ Pc(req) = "remove_job"
    /\ jobs' = [jobs EXCEPT ![req.m] = NULL]
    /\ req' = [req EXCEPT !.todo = Tail(@)]
    /\ UNCHANGED <<now, db, patient_phone, fr, sends>>

\* await self.audit_service.log_action(...): it writes the entry or raises
Audit ==
    /\ Pc(req) = "audit"
    /\ \E ok \in BOOLEAN :
         req' = IF ok
                THEN [req EXCEPT !.todo = Tail(@), !.audited = TRUE]
                ELSE [req EXCEPT !.todo = <<"ret">>, !.result = "raised"]
    /\ UNCHANGED <<now, db, patient_phone, jobs, fr, sends>>

\* the handler returns or raises to the route
Return ==
    /\ Pc(req) = "ret"
    /\ req' = Idle
    /\ UNCHANGED <<now, db, patient_phone, jobs, fr, sends>>

-----------------------------------------------------------------------------
(* deliver_message, on the event loop (send now) or in the job's thread *)

Frame(m) == [IdleFrame EXCEPT !.pc = "d_read", !.m = m]

\* line 463: return await self.deliver_message(message_id)
StartDeliver ==
    /\ Pc(req) = "deliver"
    /\ fr' = [fr EXCEPT !["loop"] = Frame(req.m)]
    /\ req' = [req EXCEPT !.todo = <<"await", "ret">>, !.delivers = @ + 1]
    /\ UNCHANGED <<now, db, patient_phone, jobs, sends>>

\* deliver_message has returned or raised: the awaiting handler does the same
Resume(c, result, audited) ==
    IF c = "loop"
    THEN [req EXCEPT !.todo = <<"ret">>, !.result = result, !.audited = audited,
                     !.msg = db'[req.m]]
    ELSE req

\* the status test deliver_message makes before it acts: it makes none
Deliverable(status) == TRUE

\* lines 567-585: load the row, resolve the phone; dec is what decrypt_data does
deliver_read(f, row, dec) ==
    IF ~Deliverable(row.status)
    THEN [f EXCEPT !.pc = "return", !.loaded = row]
    ELSE IF Truthy(row.recipient_phone)
    THEN [f EXCEPT !.pc = "d_send", !.loaded = row, !.to_phone = Val(row.recipient_phone)]
    ELSE IF patient_phone = NULL
    THEN [f EXCEPT !.pc = "d_commit", !.loaded = row, !.result = "no_phone"]
    ELSE IF dec = "ok"
    THEN [f EXCEPT !.pc = "d_send", !.loaded = row, !.to_phone = Val(patient_phone)]
    ELSE [f EXCEPT !.pc = "raise", !.loaded = row]

DeliverRead(c) ==
    /\ fr[c].pc = "d_read"
    /\ db' = db
    /\ \E dec \in {"ok", "raise"} :
         LET f == deliver_read(fr[c], db[fr[c].m], dec)
         IN  /\ dec = "raise" => f.pc = "raise"
             /\ IF f.pc \in {"raise", "return"}
                THEN /\ fr' = [fr EXCEPT ![c] = IdleFrame]
                     /\ req' = Resume(c, IF f.pc = "raise" THEN "raised" ELSE "ok", FALSE)
                ELSE /\ fr' = [fr EXCEPT ![c] = f]
                     /\ req' = req
    /\ UNCHANGED <<now, patient_phone, jobs, sends>>

\* lines 588-644: build the template variables (decrypting the patient's name)
\* and call send_whatsapp_message
DeliverSend(c) ==
    /\ fr[c].pc = "d_send"
    /\ db' = db
    /\ \E name_ok \in BOOLEAN, res \in ProviderResults :
         LET f == fr[c]
             template == f.loaded.message_type = "session_reminder"
         IN  IF template /\ ~name_ok
             THEN /\ res = "sent"
                  /\ fr' = [fr EXCEPT ![c] = IdleFrame]
                  /\ req' = Resume(c, "raised", FALSE)
                  /\ sends' = sends
             ELSE /\ name_ok
                  /\ sends' = [sends EXCEPT ![f.m] = OneMore(@)]
                  /\ fr' = [fr EXCEPT ![c] = [f EXCEPT !.pc = "d_commit", !.result = res]]
                  /\ req' = req
    /\ UNCHANGED <<now, patient_phone, jobs>>

\* lines 583 and 646-655: the status the outcome gives
Delivered(row, result, t) ==
    IF result = "no_phone" THEN [row EXCEPT !.status = "failed"]
    ELSE IF result = "sent" THEN [row EXCEPT !.status = "sent", !.sent_at = Stamp(t)]
    ELSE IF result = "failed_63016"
    THEN [row EXCEPT !.status = "failed", !.rejection_reason = Some(WindowReason)]
    ELSE [row EXCEPT !.status = "failed"]

\* lines 583-585 and 646-664: set the status and commit
DeliverCommit(c) ==
    /\ fr[c].pc = "d_commit"
    /\ LET f == fr[c]
       IN  /\ db' = [db EXCEPT ![f.m] =
                       Flush(db[f.m], f.loaded, Delivered(f.loaded, f.result, now))]
           /\ IF f.result = "no_phone"
              THEN /\ fr' = [fr EXCEPT ![c] = IdleFrame]
                   /\ req' = Resume(c, "ok", FALSE)
              ELSE /\ fr' = [fr EXCEPT ![c] = [Frame(f.m) EXCEPT !.pc = "d_audit"]]
                   /\ req' = req
    /\ UNCHANGED <<now, patient_phone, jobs, sends>>

\* lines 666-674: the audit entry of the delivery, then return
DeliverAudit(c) ==
    /\ fr[c].pc = "d_audit"
    /\ db' = db
    /\ \E ok \in BOOLEAN : req' = Resume(c, IF ok THEN "ok" ELSE "raised", ok)
    /\ fr' = [fr EXCEPT ![c] = IdleFrame]
    /\ UNCHANGED <<now, patient_phone, jobs, sends>>

-----------------------------------------------------------------------------
(* app/core/scheduler.py: the date jobs of the persistent job store *)

JobDue(m) == jobs[m] # NULL /\ Val(jobs[m]) <= now

\* the scheduler, on the event loop, takes a due job out of the store; it runs
\* _deliver_message_job in a thread unless the job is later than misfire_grace_time
SchedulerFire(m) ==
    /\ req = Idle
    /\ JobDue(m) /\ ~JobThreadRuns
    /\ jobs' = [jobs EXCEPT ![m] = NULL]
    /\ fr' = IF now - Val(jobs[m]) > MisfireGrace
             THEN fr
             ELSE [fr EXCEPT !["job"] = Frame(m)]
    /\ UNCHANGED <<now, db, patient_phone, req, sends>>

\* time passes; the running scheduler wakes up at a job's run date
Tick ==
    /\ now < MaxTime
    /\ ~(\E m \in Msgs : JobDue(m))
    /\ now' = now + 1
    /\ UNCHANGED <<db, patient_phone, jobs, req, fr, sends>>

\* the process dies and is started again at time t: the handler in flight and
\* the job's thread are lost, the database and the job store stay
CrashRestart(t) ==
    /\ t >= now
    /\ now' = t
    /\ req' = Idle
    /\ fr' = [c \in Ctx |-> IdleFrame]
    /\ UNCHANGED <<db, patient_phone, jobs, sends>>

-----------------------------------------------------------------------------
Next ==
    \/ \E m \in Msgs, type \in MessageTypes : GenerateDraft(m, Owner, type)
    \/ \E m \in Msgs, th \in Therapists : ApproveMessage(m, th)
    \/ \E m \in Msgs, th \in Therapists, reason \in ReasonArgs : RejectMessage(m, th, reason)
    \/ \E m \in Msgs, th \in Therapists : EditMessage(m, th, EditText)
    \/ \E m \in Msgs : SendMessage(m)
    \/ \E m \in Msgs, th \in Therapists, p \in ConfirmPhoneArgs, s \in SendAtArgs :
         SendOrSchedule(m, th, FinalText, p, s)
    \/ \E m \in Msgs, th \in Therapists : CancelMessage(m, th)
    \/ \E m \in Msgs, th \in Therapists, c \in {NULL, Some(RescheduleText)},
          p \in EditPhoneArgs, s \in EditSendAtArgs :
         EditScheduled(m, th, c, p, s)
    \/ Commit
    \/ AddJob
    \/ RemoveJob
    \/ Audit
    \/ Return
    \/ StartDeliver
    \/ \E c \in Ctx : DeliverRead(c)
    \/ \E c \in Ctx : DeliverSend(c)
    \/ \E c \in Ctx : DeliverCommit(c)
    \/ \E c \in Ctx : DeliverAudit(c)
    \/ \E m \in Msgs : SchedulerFire(m)
    \/ Tick
    \/ \E t \in 0..MaxTime : CrashRestart(t)

Spec == Init /\ [][Next]_vars

-----------------------------------------------------------------------------
(* Properties of the message lifecycle *)

\* the errors a handler raises before it writes anything
Refusals ==
    {"not_found", "invalid_transition", "invalid_phone", "type_error", "job_lookup_error"}

\* C1: the provider has been called for a message, or a delivery of it is
\* pending or running, only if the message was confirmed (approved_at is
\* set); generating, editing, rejecting and cancelling never run a delivery.
C1_SendOnlyAfterConfirmation ==
    /\ \A m \in Msgs :
         (sends[m] # "none" \/ jobs[m] # NULL
            \/ \E c \in Ctx : fr[c].pc # "idle" /\ fr[c].m = m)
         => m \in DOMAIN db /\ db[m].approved_at # NULL
    /\ fr["loop"].pc # "idle" => req.op = "send_or_schedule"
    /\ req.op \in {"generate_draft", "edit", "reject", "cancel"}
         => req.delivers = 0 /\ fr["loop"].pc = "idle"
              /\ \A i \in DOMAIN req.todo : req.todo[i] # "deliver"

C1_Witness ==
    /\ 1 \in DOMAIN db
    /\ sends[1] = "one"
    /\ db[1].approved_at # NULL
    /\ db[1].status = "sent"

\* C2: the provider is called at most once for each message, whatever the
\* interleaving of handlers, scheduled deliveries and restarts.
C2_AtMostOneSend == \A m \in Msgs : sends[m] # "many"

\* C3: once a message is rejected, it is never handed to the provider and
\* never becomes SENT.
C3_RejectedNeverSent ==
    [][\A m \in DOMAIN db :
         db[m].status = "rejected"
         => sends'[m] = sends[m] /\ db'[m].status # "sent"]_vars

\* C4: approve_message succeeds exactly from DRAFT and PENDING_APPROVAL, and
\* then commits APPROVED with approved_at; from any other status it raises
\* the invalid-transition error and writes nothing.
C4_ApproveGuard ==
    req.op = "approve" /\ req.result # "not_found" =>
      IF req.loaded.status \in {"draft", "pending_approval"}
      THEN /\ req.result \notin Refusals
           /\ Pc(req) # "commit"
                => /\ req.msg.status = "approved"
                   /\ req.msg.approved_at # NULL
                   /\ db[req.m].approved_at # NULL
      ELSE /\ req.result = "invalid_transition"
           /\ req.msg = req.loaded
           /\ req.todo = <<"ret">>

C4_Witness ==
    /\ req.op = "approve"
    /\ req.loaded.status = "draft"
    /\ Pc(req) = "ret"
    /\ req.result = "ok"
    /\ db[req.m].status = "approved"

\* C5: reject_message succeeds exactly from DRAFT and PENDING_APPROVAL, and
\* then commits REJECTED with rejected_at and rejection_reason; from any other
\* status it raises the invalid-transition error and writes nothing.
C5_RejectGuard ==
    req.op = "reject" /\ req.result # "not_found" =>
      IF req.loaded.status \in {"draft", "pending_approval"}
      THEN /\ req.result \notin Refusals
           /\ Pc(req) # "commit"
                => /\ req.msg.status = "rejected"
                   /\ req.msg.rejected_at # NULL
                   /\ req.msg.rejection_reason # NULL
      ELSE /\ req.result = "invalid_transition"
           /\ req.msg = req.loaded
           /\ req.todo = <<"ret">>

C7_ImmediateTerminal ==
    /\ \A s \in SendAtArgs :
         (1 \in DOMAIN db /\ db[1].status = "draft"
            /\ (s = NULL \/ Instant(AttachUtc(Val(s))) <= now))
         => send_or_schedule_message(1, Owner, FinalText, NULL, s).todo
              = <<"commit", "deliver", "ret">>
    /\ (req.op = "send_or_schedule" /\ req.result \notin Refusals
          /\ req.act # "schedule" /\ Pc(req) = "ret")
         => req.delivers = 1 /\ db[req.m].status \in {"sent", "failed"}

\* C8: a send_or_schedule_message call on a DRAFT with send_at later than now
\* commits SCHEDULED with scheduled_send_at the UTC reading of the given
\* instant, and runs no delivery.
C8_FutureScheduled ==
    /\ \A s \in SendAtArgs \ {NULL} :
         (1 \in DOMAIN db /\ db[1].status = "draft"
            /\ Instant(AttachUtc(Val(s))) > now)
         => send_or_schedule_message(1, Owner, FinalText, NULL, s).todo
              = <<"commit", "add_job", "audit", "ret">>
    /\ (req.op = "send_or_schedule" /\ req.act = "schedule" /\ Pc(req) # "commit")
         => /\ req.msg.status = "scheduled"
            /\ req.msg.scheduled_send_at = Some(Instant(Val(req.send_at)))
            /\ req.delivers = 0

\* C9: in every state, send_or_schedule_message gives the same outcome (the
\* decision, the status and the stored scheduled_send_at) for a naive send_at
\* and for the UTC send_at of the same wall clock, and the comparison with
\* now does not raise.
C9_NaiveIsUtc ==
    \A w \in Walls, p \in ConfirmPhoneArgs :
      LET naive == send_or_schedule_message(1, Owner, FinalText, p,
                                            Some([wall |-> w, tz |-> "naive"]))
          utc == send_or_schedule_message(1, Owner, FinalText, p,
                                          Some([wall |-> w, tz |-> "utc"]))
      IN  naive = utc /\ naive.result # "type_error"

C9_Witness ==
    /\ 1 \in DOMAIN db
    /\ db[1].status = "draft"
    /\ LET naive == send_or_schedule_message(1, Owner, FinalText, NULL,
                                             Some([wall |-> MaxTime, tz |-> "naive"]))
       IN  /\ naive.act = "schedule"
           /\ naive.msg.status = "scheduled"
           /\ naive.msg.scheduled_send_at = Some(MaxTime)
           /\ naive.send_at = Some([wall |-> MaxTime, tz |-> "utc"])

\* C10: cancel_message succeeds exactly from SCHEDULED, and then commits
\* CANCELLED without running a delivery; from any other status it raises and
\* writes nothing.
C10_CancelGuard ==
    req.op = "cancel" /\ req.result # "not_found" =>
      IF req.loaded.status = "scheduled"
      THEN /\ req.result \notin Refusals
           /\ Pc(req) # "commit" => req.msg.status = "cancelled"
           /\ req.delivers = 0 /\ fr["loop"].pc = "idle"
           /\ \A i \in DOMAIN req.todo : req.todo[i] # "deliver"
      ELSE /\ req.result = "invalid_transition"
           /\ req.msg = req.loaded
           /\ req.todo = <<"ret">>

C10_Witness ==
    /\ req.op = "cancel"
    /\ req.loaded.status = "scheduled"
    /\ Pc(req) = "ret"
    /\ req.result = "ok"
    /\ db[req.m].status = "cancelled"
    /\ sends[req.m] = "none"

\* C11: once a message is CANCELLED the scheduler does not start a delivery of
\* it: no job thread is started for a record whose status is CANCELLED.
C11_CancelledNeverTriggered ==
    [][\A m \in DOMAIN db :
         (db[m].status = "cancelled" /\ fr["job"].pc = "idle")
         => ~(fr'["job"].pc = "d_read" /\ fr'["job"].m = m)]_vars

\* C12: deliver_message does nothing on a record it finds SENT, FAILED,
\* REJECTED or CANCELLED: it goes on to the provider call or to a status
\* change only for a record it loaded in another status.
C12_TerminalNoOp ==
    \A c \in Ctx :
      fr[c].pc \in {"d_send", "d_commit"}
      => fr[c].loaded.status \notin {"sent", "failed", "rejected", "cancelled"}

-----------------------------------------------------------------------------
(* deliver_due_messages: the periodic sweep.  The tests call it; its code   *)
(* is not in the source tree, and it is modelled from the specification:    *)
(* query the records with status SCHEDULED and scheduled_send_at <= now,    *)
(* call deliver_message for each, return their number.                      *)

SweepMsgs == {1, 2}

\* the rows the sweep is tried on
SweepRows ==
    {[Message(Owner, "task_reminder", FinalText) EXCEPT
        !.status = st, !.approved_at = Stamp(0), !.scheduled_send_at = Some(w)] :
       st \in {"draft", "scheduled", "cancelled", "sent"}, w \in Walls}

IsDue_status(row, t) == row.status = "scheduled"

\* status == SCHEDULED AND scheduledSendAt <= now
IsDue(row, t) ==
    /\ row.status = "scheduled"
    /\ row.scheduled_send_at # NULL
    /\ Val(row.scheduled_send_at) <= t

DueSet == {m \in DOMAIN db : IsDue(db[m], now)}

\* the orders in which a query may return the records of S
Orders(S) ==
    {o \in [1..Cardinality(S) -> S] : \A i, j \in DOMAIN o : i # j => o[i] # o[j]}

deliver_due_messages(order) ==
    [Call("deliver_due_messages", 0, "") EXCEPT
       !.todo = <<"dispatch", "ret">>, !.due = order]

DeliverDueMessages ==
    /\ req = Idle
    /\ fr["job"].pc = "idle"
    /\ \E order \in Orders(DueSet) : req' = deliver_due_messages(order)
    /\ UNCHANGED <<now, db, patient_phone, jobs, fr, sends>>

\* the sweep hands the next due record to deliver_message, or is done
SweepDispatch ==
    /\ Pc(req) = "dispatch"
    /\ fr["job"].pc = "idle"
    /\ IF req.due = <<>>
       THEN /\ req' = [req EXCEPT !.todo = <<"ret">>]
            /\ fr' = fr
       ELSE /\ req' = [req EXCEPT !.due = Tail(@), !.delivers = @ + 1]
            /\ fr' = [fr EXCEPT !["job"] = Frame(Head(req.due))]
    /\ UNCHANGED <<now, db, patient_phone, jobs, sends>>

SweepInit ==
    /\ now = 0
    /\ db \in [SweepMsgs -> SweepRows]
    /\ patient_phone \in {NULL, Some(ProfilePhone)}
    /\ jobs = [m \in SweepMsgs |-> NULL]
    /\ req = Idle
    /\ fr = [c \in Ctx |-> IdleFrame]
    /\ sends = [m \in SweepMsgs |-> "none"]

SweepNext ==
    \/ DeliverDueMessages
    \/ SweepDispatch
    \/ Return
    \/ \E c \in Ctx : DeliverRead(c)
    \/ \E c \in Ctx : DeliverSend(c)
    \/ \E c \in Ctx : DeliverCommit(c)
    \/ \E c \in Ctx : DeliverAudit(c)
    \/ Tick

SweepSpec == SweepInit /\ [][SweepNext]_vars

C14_EditScheduledFrame ==
    /\ (req.op = "edit_scheduled" /\ req.result # "not_found")
         => /\ req.loaded.status # "scheduled" => req.result = "invalid_transition"
            /\ req.result \notin Refusals => req.loaded.status = "scheduled"
            /\ req.result \in Refusals
                 => req.msg = req.loaded /\ req.todo = <<"ret">>
    /\ (1 \in DOMAIN db /\ db[1].status = "scheduled")
         => \A c \in {NULL, Some(RescheduleText)}, p \in EditPhoneArgs,
               s \in EditSendAtArgs :
              LET r == edit_scheduled_message(1, Owner, c, p, s)
              IN  r.result \notin Refusals
                  => /\ r.msg.status = "scheduled"
                     /\ c = NULL => r.msg.content = db[1].content
                     /\ p = NULL => r.msg.recipient_phone = db[1].recipient_phone
                     /\ s = NULL => r.msg.scheduled_send_at = db[1].scheduled_send_at
                     /\ \A f \in DOMAIN db[1] \
                                 {"content", "recipient_phone", "scheduled_send_at"} :
                          r.msg[f] = db[1][f]
                     /\ Flush(db[1], r.loaded, r.msg) = r.msg

C14_Witness ==
    /\ req.op = "edit_scheduled"
    /\ Pc(req) = "ret"
    /\ req.result = "ok"
    /\ req.loaded.content # RescheduleText
    /\ db[req.m].content = RescheduleText
    /\ db[req.m].status = "scheduled"
    /\ req.loaded.recipient_phone # NULL
    /\ db[req.m].recipient_phone = req.loaded.recipient_phone
    /\ db[req.m].scheduled_send_at = req.loaded.scheduled_send_at

\* C15: when a commit of edit_scheduled_message changes scheduled_send_at, the
\* job of the message is due at exactly the new stored time, so the scheduler
\* triggers the delivery at t_new: not earlier, not at t_old, and without any
\* further call.
C15_RescheduledAtNewTime ==
    [][\A m \in DOMAIN db :
         (/\ m \in DOMAIN db'
          /\ req'.op = "edit_scheduled" /\ req'.m = m
          /\ db'[m].scheduled_send_at # db[m].scheduled_send_at)
         => jobs'[m] = db'[m].scheduled_send_at]_vars

\* C16: the content of a record changes only in a step that starts with the
\* record DRAFT, PENDING_APPROVAL or SCHEDULED; in particular the content of a
\* SENT, DELIVERED, READ or REPLIED record never changes.
C16_ContentFrozenOnceSent ==
    [][\A m \in DOMAIN db :
         (m \in DOMAIN db' /\ db'[m].content # db[m].content)
         => db[m].status \in {"draft", "pending_approval", "scheduled"}]_vars

\* C17: every change of a record's status is an edge of the transition graph,
\* so no step changes the status of a SENT, FAILED, REJECTED or CANCELLED record.
TransitionGraph ==
    {<<"draft", "approved">>, <<"pending_approval", "approved">>,
     <<"draft", "rejected">>, <<"pending_approval", "rejected">>,
     <<"draft", "sent">>, <<"draft", "failed">>, <<"draft", "scheduled">>,
     <<"scheduled", "cancelled">>, <<"scheduled", "scheduled">>,
     <<"approved", "sent">>, <<"approved", "failed">>,
     <<"scheduled", "sent">>, <<"scheduled", "failed">>}

C17_StatusFollowsGraph ==
    [][\A m \in DOMAIN db :
         (m \in DOMAIN db' /\ db'[m].status # db[m].status)
         => <<db[m].status, db'[m].status>> \in TransitionGraph]_vars

\* C18: while a successful cancel_message and a delivery of the same message
\* are both in flight, the delivery makes no provider call once the CANCELLED
\* status is committed.
C18_NoSendOnceCancelCommitted ==
    [][(/\ req.op = "cancel" /\ req.result = "ok"
        /\ fr["job"].pc = "d_send" /\ fr["job"].m = req.m
        /\ fr'["job"].pc = "d_commit")
       => db[req.m].status # "cancelled"]_vars

\* C19: a SCHEDULED record is always on its way to SENT or FAILED: whenever no
\* handler and no delivery thread is at work, the job store holds the job that
\* will deliver it. (Without that job nothing the scheduler does concerns the
\* record, so it stays SCHEDULED however fairly the scheduler runs.)
C19_ScheduledHasJob ==
    \A m \in DOMAIN db :
      (req = Idle /\ ~JobThreadRuns /\ db[m].status = "scheduled")
      => jobs[m] # NULL

\* C20: deliver_message never raises to its caller: the handler that awaits
\* it on the immediate path always gets a return, never an exception.
C20_DeliverNeverRaises ==
    (req.op = "send_or_schedule" /\ req.delivers = 1) => req.result # "raised"

\* C21: when deliver_message resolves no phone, it makes no provider call and
\* returns with the record FAILED and the reason "no phone" recorded on it.
\* (On the immediate path a return with no delivery audit entry is the
\* no-phone return.)
C21_NoPhoneFailsWithReason ==
    (/\ req.op = "send_or_schedule" /\ req.delivers = 1
     /\ Pc(req) = "ret" /\ req.result = "ok" /\ ~req.audited)
    => /\ req.msg.status = "failed"
       /\ req.msg.rejection_reason = Some("no phone")

\* C22: a lifecycle operation whose status change is committed reports success
\* to its caller whatever log_action does: the handler of approve, reject,
\* edit, schedule or cancel never ends by raising.
C22_AuditNeverFailsOperation ==
    (/\ req.op \in {"approve", "reject", "edit", "send_or_schedule", "cancel"}
     /\ req.delivers = 0)
    => req.result # "raised"

-----------------------------------------------------------------------------
(* app/services/whatsapp_service.py, app/services/channels: which transport a
   send goes through under the settings of the deployment *)

\* settings.WHATSAPP_PROVIDER: app/core/config.py declares no such field
\* ("undeclared": reading it raises AttributeError); a deployment that declares
\* it leaves it unset or names a provider
ProviderSettings == {"undeclared", "unset", "green_api", "twilio", "other"}

\* which credentials are configured
Settings ==
    [WHATSAPP_PROVIDER : ProviderSettings,
     GREEN_API : BOOLEAN,
     TWILIO_ACCOUNT_SID : BOOLEAN, TWILIO_WHATSAPP_NUMBER : BOOLEAN,
     TWILIO_API_KEY : BOOLEAN, TWILIO_AUTH_TOKEN : BOOLEAN]

\* channels/__init__.py lines 16-18
has_creds(s) ==
    s.TWILIO_ACCOUNT_SID /\ s.TWILIO_WHATSAPP_NUMBER
      /\ (s.TWILIO_API_KEY \/ s.TWILIO_AUTH_TOKEN)

SendResult(status, transport) == [status |-> status, transport |-> transport]

\* channels/__init__.py lines 19-29: WhatsAppChannel with credentials, else DevLogChannel
get_channel(s) == IF has_creds(s) THEN "twilio" ELSE "dev_log"

\* whatsapp_service.py lines 65-76: the GreenAPI client is built and called
\* whatever the credentials are; without them the call fails and is caught
send_via_green_api(s, outcome) ==
    SendResult(IF s.GREEN_API THEN outcome ELSE "failed", "green_api")

\* whatsapp_service.py lines 86-90 and channels/whatsapp.py
send_via_twilio(s, outcome) ==
    IF get_channel(s) = "twilio" THEN SendResult(outcome, "twilio")
    ELSE SendResult("sent", "dev_log")

\* the provider an unset setting falls back to (line 107)
DefaultProvider == "green_api"

\* whatsapp_service.py lines 106-125
send_whatsapp_message(s, outcome) ==
    IF s.WHATSAPP_PROVIDER = "undeclared" THEN SendResult("raised", "none")
    ELSE LET provider == IF s.WHATSAPP_PROVIDER = "unset" THEN DefaultProvider
                         ELSE s.WHATSAPP_PROVIDER
         IN  IF provider = "green_api" THEN send_via_green_api(s, outcome)
             ELSE IF provider = "twilio" THEN send_via_twilio(s, outcome)
             ELSE SendResult("sent", "dev_log")

\* a call of send_whatsapp_message under settings s
RouteCall(s) ==
    [op |-> "send_whatsapp_message", settings |-> s, todo |-> <<"route", "ret">>,
     result |-> SendResult("", "none")]

SendWhatsappMessage ==
    /\ Pc(req) = "route"
    /\ \E outcome \in ProviderResults :
         req' = [req EXCEPT !.todo = Tail(@),
                            !.result = send_whatsapp_message(req.settings, outcome)]
    /\ UNCHANGED <<now, db, patient_phone, jobs, fr, sends>>

RouteInit ==
    /\ now = 0
    /\ db = <<>>
    /\ patient_phone = NULL
    /\ jobs = <<>>
    /\ req \in {RouteCall(s) : s \in Settings}
    /\ fr = [c \in Ctx |-> IdleFrame]
    /\ sends = <<>>

RouteNext == SendWhatsappMessage \/ Return

RouteSpec == RouteInit /\ [][RouteNext]_vars

NoCredentials(s) ==
    ~s.GREEN_API /\ ~s.TWILIO_ACCOUNT_SID /\ ~s.TWILIO_WHATSAPP_NUMBER
      /\ ~s.TWILIO_API_KEY /\ ~s.TWILIO_AUTH_TOKEN

\* C23: with no provider credentials configured, a send goes through the
\* log-only adapter and reports sent: no real transport is built or called.
C23_NoCredentialsLogOnly ==
    (/\ req.op = "send_whatsapp_message" /\ Pc(req) = "ret"
     /\ NoCredentials(req.settings))
    => req.result = SendResult("sent", "dev_log")

-----------------------------------------------------------------------------
(* app/utils/phone.py: normalize_phone over bounded inputs *)

\* the longest run of digits in an input
MaxRun == 16

Run(n) == [i \in 1..n |-> "5"]

PhonePrefixes ==
    {<<>>, <<"+">>, <<"0">>, <<"0", "0">>, <<"0", "+">>, <<" ", "+">>,
     <<"+", "1", " ", "(">>, <<"a">>, <<"(", "0">>, <<"+", "U+0663">>}

PhoneSuffixes ==
    {<<>>, <<" ">>, <<"-", "4", ".", "7">>, <<")", "0">>, <<"x">>, <<"U+00B2">>, <<"+">>}

PhoneInputs ==
    {p \o Run(n) \o q : p \in PhonePrefixes, n \in 0..MaxRun, q \in PhoneSuffixes}
      \cup {LocalPhone, IntlPhone, BadPhone, EmptyStr}

PhoneCall(phone) ==
    [op |-> "normalize_phone", phone |-> phone, todo |-> <<"normalize", "ret">>,
     result |-> [ok |-> FALSE, val |-> <<>>]]

NormalizePhone ==
    /\ Pc(req) = "normalize"
    /\ req' = [req EXCEPT !.todo = Tail(@), !.result = normalize_phone(req.phone)]
    /\ UNCHANGED <<now, db, patient_phone, jobs, fr, sends>>

PhoneInit ==
    /\ now = 0
    /\ db = <<>>
    /\ patient_phone = NULL
    /\ jobs = <<>>
    /\ req \in {PhoneCall(p) : p \in PhoneInputs}
    /\ fr = [c \in Ctx |-> IdleFrame]
    /\ sends = <<>>

PhoneNext == NormalizePhone \/ Return

PhoneSpec == PhoneInit /\ [][PhoneNext]_vars

IsE164(v) ==
    /\ v # <<>> /\ Head(v) = "+"
    /\ Len(v) - 1 >= 7 /\ Len(v) - 1 <= 15
    /\ \A i \in 2..Len(v) : v[i] \in Digits

\* C24: whatever normalize_phone returns is '+' followed by 7 to 15 digits
\* 0-9; "050-123-4567" gives "+972501234567", "+1 (415) 555-0100" gives
\* "+14155550100" and "abc" fails.
C24_NormalizedIsE164 ==
    /\ (req.op = "normalize_phone" /\ Pc(req) = "ret" /\ req.result.ok)
         => IsE164(req.result.val)
    /\ normalize_phone(LocalPhone).val
         = <<"+", "9", "7", "2", "5", "0", "1", "2", "3", "4", "5", "6", "7">>
    /\ normalize_phone(<<"+", "1", " ", "(", "4", "1", "5", ")", " ",
                          "5", "5", "5", "-", "0", "1", "0", "0">>).val
         = <<"+", "1", "4", "1", "5", "5", "5", "5", "0", "1", "0", "0">>
    /\ ~normalize_phone(BadPhone).ok

\* C25: the commit of deliver_message after a provider call leaves the record
\* SENT with sent_at set when the provider reported sent, and FAILED with a
\* reason recorded on it when the provider reported a failure.
C25_OutcomeRecorded ==
    [][\A c \in Ctx :
         (fr[c].pc = "d_commit" /\ fr'[c].pc = "d_audit")
         => LET row == db'[fr[c].m]
            IN  IF fr[c].result = "sent"
                THEN row.status = "sent" /\ row.sent_at # NULL
                ELSE row.status = "failed" /\ row.rejection_reason # NULL]_vars

\* C26: a SCHEDULED record has scheduled_send_at set; scheduled_send_at, once
\* set, is never erased; and it becomes set only in a step that leaves the
\* record SCHEDULED, so a record confirmed for immediate delivery keeps it null.
C26_ScheduledSendAtHistory ==
    /\ [](\A m \in DOMAIN db :
            db[m].status = "scheduled" => db[m].scheduled_send_at # NULL)
    /\ [][\A m \in DOMAIN db :
            m \in DOMAIN db'
            => /\ db[m].scheduled_send_at # NULL => db'[m].scheduled_send_at # NULL
               /\ (db[m].scheduled_send_at = NULL /\ db'[m].scheduled_send_at # NULL)
                    => db'[m].status = "scheduled"]_vars

C26_Witness ==
    /\ fr["job"].pc = "d_audit"
    /\ db[fr["job"].m].status \in {"sent", "failed"}
    /\ db[fr["job"].m].scheduled_send_at # NULL

\* C27: on a session_reminder, send_or_schedule_message and
\* edit_scheduled_message keep the stored content whatever content they are
\* given, and still store the recipient phone and the send time they are given.
C27_TemplateContentKept ==
    (1 \in DOMAIN db /\ db[1].message_type = "session_reminder")
    => /\ db[1].status = "draft"
            => \A p \in ConfirmPhoneArgs, s \in SendAtArgs :
                 LET r == send_or_schedule_message(1, Owner, FinalText, p, s)
                 IN  r.result \notin Refusals
                     => /\ r.msg.content = db[1].content
                        /\ Truthy(p) => r.msg.recipient_phone
                                          = Some(normalize_phone(Val(p)).val)
                        /\ r.act = "schedule" => r.msg.scheduled_send_at # NULL
       /\ db[1].status = "scheduled"
            => \A p \in EditPhoneArgs, s \in EditSendAtArgs :
                 LET r == edit_scheduled_message(1, Owner, Some(RescheduleText), p, s)
                 IN  r.result \notin Refusals
                     => /\ r.msg.content = db[1].content
                        /\ Truthy(p) => r.msg.recipient_phone
                                          = Some(normalize_phone(Val(p)).val)
                        /\ s # NULL => r.msg.scheduled_send_at
                                         = Some(StoreDateTime(Val(s)))

C27_Witness ==
    /\ req.op = "edit_scheduled" /\ req.result = "ok" /\ Pc(req) = "ret"
    /\ db[req.m].message_type = "session_reminder"
    /\ db[req.m].content = req.loaded.content
    /\ db[req.m].scheduled_send_at # req.loaded.scheduled_send_at

\* C28: every operation that changes the status of a message, or edits a
\* scheduled one, and reports success has written an audit entry for it.
C28_TransitionsAudited ==
    (/\ req.op \in {"approve", "reject", "send_or_schedule", "cancel", "edit_scheduled"}
     /\ Pc(req) = "ret" /\ req.result = "ok")
    => req.audited

\* C29: for edit_scheduled_message a naive send_at and a UTC send_at of the
\* same wall-clock reading give the same stored scheduled_send_at and the same
\* run date of the job.
C29_EditNaiveIsUtc ==
    \A m \in DOMAIN db :
      (db[m].status = "scheduled" /\ jobs[m] # NULL)
      => \A w \in Walls :
           LET naive == Some([wall |-> w, tz |-> "naive"])
               utc == Some([wall |-> w, tz |-> "utc"])
           IN  /\ edit_scheduled_message(m, Owner, NULL, NULL, naive).msg.scheduled_send_at
                    = edit_scheduled_message(m, Owner, NULL, NULL, utc).msg.scheduled_send_at
               /\ reschedule_job(m, naive)[m] = reschedule_job(m, utc)[m]

\* C30: an edit_scheduled_message that loaded the record SCHEDULED writes
\* nothing to it once a delivery has committed SENT, so a SENT record keeps the
\* content and the phone that went to the provider.
C30_EditNeverAltersSent ==
    [][(/\ req.op = "edit_scheduled" /\ Pc(req) = "commit"
        /\ db[req.m].status = "sent")
       => db'[req.m] = db[req.m]]_vars

====
